---- MODULE Spec2Model ----
(***************************************************************************)
(* Model of oscijtag (src/oscijtag/__init__.py): the RISC-V JTAG TAP       *)
(* operations detect_irlen, read_idcode, bypass, read_dtmcontrol,          *)
(* read_dmi, write_dmi, the connection check check_connection, and the     *)
(* register codecs DtmControlValue and DmiValue.                           *)
(*                                                                         *)
(* Specifications.                                                         *)
(*  - Spec: a caller makes calls of the module's functions, one at a time. *)
(*  - SpecCodec: the register codecs applied to drawn inputs.              *)
(*  - SpecThreads: two threads of a caller on the one driver handle.       *)
(*  - SpecCheck: check_connection on a transport that may hang, with the   *)
(*    fairness of sequential execution.                                    *)
(*                                                                         *)
(* Representation of values.                                               *)
(*  - A Python int that holds a register value is unbounded; it is the set *)
(*    of the positions of its 1 bits (bit 0 = least significant).  & is    *)
(*    intersection, | is union, << and >> move the positions.              *)
(*  - A small Python int (a length, irlen) is a natural number.            *)
(*  - A pyftdi BitSequence is [len, bits]: len elements, bits the set of   *)
(*    the indices of the elements that are 1.  Element 0 is the least      *)
(*    significant bit of int(seq) and the first bit put on the wire.       *)
(***************************************************************************)
EXTENDS Integers, Sequences, FiniteSets, TLC

VARIABLES
    ccpc,    \* position of check_connection: "none" when it is not running
    steps,   \* the operations check_connection has called so far, in order
    dtmctrl, \* check_connection's local dtmctrl (line 310)
    op,      \* the operation (or codec call chain) running or last run
    pc,      \* its position: the line of its next driver call, "returned", "raised"
    arg,     \* its argument
    local,   \* its local variables
    ret,     \* what it returned
    err,     \* the exception it raised
    calls,   \* the driver calls it issued so far, in order, with their results
    tap,     \* state of the TAP controller's state machine
    ir,      \* the instruction the TAP's instruction register holds
    devIdcode, \* the IDCODE register of the attached device
    parked   \* the call (op, pc, arg, local, ret, err, calls) of a second
             \* thread of the caller, while that thread is not running

vars == <<ccpc, steps, dtmctrl, op, pc, arg, local, ret, err, calls, tap, ir, devIdcode,
          parked>>

(***************************************************************************)
(* Bounds of the model                                                     *)
(***************************************************************************)
\* the inputs of the codecs have at most MaxOnes bits set, at any positions
MaxOnes == 2
\* the devices tried have abits in 0..MaxAbits
MaxAbits == 3
\* the driver reports an instruction register size in 1..MaxIrlen
MaxIrlen == 7
\* caller-supplied BYPASS inputs have 1..MaxBypassLen bits
MaxBypassLen == 3

(***************************************************************************)
(* Python int arithmetic on bit-position sets                              *)
(***************************************************************************)
Shl(val, k) == {i + k : i \in val}
Shr(val, k) == {i - k : i \in {j \in val : j >= k}}

RECURSIVE Pow2(_)
Pow2(n) == IF n = 0 THEN 1 ELSE 2 * Pow2(n - 1)

\* the natural number a (small) bit set stands for
RECURSIVE NatOf(_)
NatOf(val) ==
    IF val = {} THEN 0
    ELSE LET i == CHOOSE x \in val : TRUE IN Pow2(i) + NatOf(val \ {i})

\* the bit sets over universe U with exactly k, and with at most k, elements
RECURSIVE Exactly(_, _)
Exactly(U, k) ==
    IF k = 0 THEN {{}}
    ELSE UNION {{S \cup {x} : x \in {y \in U : \A z \in S : y > z}} :
                S \in Exactly(U, k - 1)}
Weighted(U, k) == UNION {Exactly(U, j) : j \in 0..k}

\* hexadecimal literals of the source, as bit sets
Hex01 == {0}
Hex03 == 0..1
Hex07 == 0..2
Hex0F == 0..3
Hex3F == 0..5
HexFFFFFFFF == 0..31
Hex3FFFFFFFC == 2..33

(***************************************************************************)
(* pyftdi.bits.BitSequence, as the source uses it                          *)
(***************************************************************************)
\* BitSequence(value: int, length=length), msb=False: at most `length` low
\* bits of value are taken (all of them when length is 0), then the
\* sequence is padded with zeros up to `length`.
Max(a, b) == IF a >= b THEN a ELSE b
BitLen(val) == IF val = {} THEN 1 ELSE 1 + (CHOOSE m \in val : \A x \in val : x <= m)
BitSequence_int(val, length) ==
    IF length = 0 THEN [len |-> BitLen(val), bits |-> val]
    ELSE [len |-> length, bits |-> val \cap (0 .. length - 1)]

\* BitSequence(value: str, msb=msb, length=length): the characters are the
\* elements in order, reversed when msb; padded with zeros up to `length`.
BitSequence_str(str, msb, length) ==
    LET n == Len(str) IN
    [len |-> Max(n, length),
     bits |-> IF msb THEN {n - i : i \in {j \in 1..n : str[j] = 1}}
                     ELSE {i - 1 : i \in {j \in 1..n : str[j] = 1}}]

\* int(seq) and len(seq)
BitSequence_toint(seq) == seq.bits
BitSequence_len(seq) == seq.len

\* seq.lsr(count): rotation, seq[count:] + seq[:count]
BitSequence_lsr(seq, count) ==
    [len |-> seq.len,
     bits |-> {(i + seq.len - (count % seq.len)) % seq.len : i \in seq.bits}]

\* seq == other: same length and same elements
\* (faulty variant: only the lengths are compared)
BitSequence_eq_lenonly(a, b) == a.len = b.len
BitSequence_eq(a, b) == a.len = b.len /\ a.bits = b.bits

(***************************************************************************)
(* Constants of the source                                                 *)
(***************************************************************************)
RiscvJtagRegs ==
    [BYPASS |-> BitSequence_str(<<0, 0, 0, 0, 0>>, TRUE, 5),
     IDCODE |-> BitSequence_str(<<0, 0, 0, 0, 1>>, TRUE, 5),
     DTMCS  |-> BitSequence_str(<<1, 0, 0, 0, 0>>, TRUE, 5),
     DMI    |-> BitSequence_str(<<1, 0, 0, 0, 1>>, TRUE, 5)]

\* 0x00000001 and 0x20000913
IdDefault == {0}
IdSifive == {0, 1, 4, 8, 11, 29}
\* 0xDEADBEEF, in no table
IdDeadbeef == {0, 1, 2, 3, 5, 6, 7, 9, 10, 11, 12, 13, 15,
               16, 18, 19, 21, 23, 25, 26, 27, 28, 30, 31}
\* (faulty variant: the DEFAULT entry is missing)
JtagIdCodes_sifive_only == (IdSifive :> "SIFIVE")
JtagIdCodes == (IdDefault :> "DEFAULT") @@ (IdSifive :> "SIFIVE")

None == [t |-> "None"]
NoError == [t |-> "none"]
ValueError(msg, by) == [t |-> "ValueError", msg |-> msg, by |-> by]

(***************************************************************************)
(* Register codecs                                                         *)
(***************************************************************************)
\* DtmControlValue.from_bitseq: the decoded value, or the ValueError raised
\* (faulty variant: bit 15 is not tested)
DtmControlValue_from_bitseq_nocheck15(bitseq) ==
    LET val == BitSequence_toint(bitseq) IN
    IF Shr(val, 18) # {}
    THEN [raised |-> "Invalid DTMCONTROL bits 18-31"]
    ELSE [raised |-> "",
          version      |-> val \cap Hex0F,
          abits        |-> Shr(val, 4) \cap Hex3F,
          dmistat      |-> Shr(val, 10) \cap Hex03,
          idle         |-> Shr(val, 12) \cap Hex07,
          dmireset     |-> Shr(val, 16) \cap Hex01,
          dmihardreset |-> Shr(val, 17) \cap Hex01]
DtmControlValue_from_bitseq(bitseq) ==
    LET val == BitSequence_toint(bitseq) IN
    IF Shr(val, 15) \cap Hex01 # {}
    THEN [raised |-> "Invalid DTMCONTROL bit 15"]
    ELSE IF Shr(val, 18) # {}
    THEN [raised |-> "Invalid DTMCONTROL bits 18-31"]
    ELSE [raised |-> "",
          version      |-> val \cap Hex0F,
          abits        |-> Shr(val, 4) \cap Hex3F,
          dmistat      |-> Shr(val, 10) \cap Hex03,
          idle         |-> Shr(val, 12) \cap Hex07,
          dmireset     |-> Shr(val, 16) \cap Hex01,
          dmihardreset |-> Shr(val, 17) \cap Hex01]

\* DmiValue.to_bitseq
\* (faulty variant: the data mask is 0xFFFF_FFFF)
DmiValue_to_bitseq_datamask(self) ==
    LET val == (self.op \cap Hex03)
               \cup (Shl(self.data, 2) \cap HexFFFFFFFF)
               \cup Shl(self.address, 34)
    IN BitSequence_int(val, self.len)
\* (faulty variant: the length is fixed at 33)
DmiValue_to_bitseq_fixedlen(self) ==
    LET val == (self.op \cap Hex03)
               \cup (Shl(self.data, 2) \cap Hex3FFFFFFFC)
               \cup Shl(self.address, 34)
    IN BitSequence_int(val, 33)
DmiValue_to_bitseq(self) ==
    LET val == (self.op \cap Hex03)
               \cup (Shl(self.data, 2) \cap Hex3FFFFFFFC)
               \cup Shl(self.address, 34)
    IN BitSequence_int(val, self.len)

\* DmiValue.from_bitseq
DmiValue_from_bitseq(bitseq) ==
    LET val == BitSequence_toint(bitseq) IN
    [len     |-> BitSequence_len(bitseq),
     op      |-> val \cap Hex03,
     data    |-> Shr(val, 2) \cap HexFFFFFFFF,
     address |-> Shr(val, 34)]

(***************************************************************************)
(* The TAP behind the driver handle `jtag` (line 56): the device's data    *)
(* registers and what a shift through them returns                         *)
(***************************************************************************)
RECURSIVE BitsOf(_)
BitsOf(n) ==
    IF n = 0 THEN {}
    ELSE (IF n % 2 = 1 THEN {0} ELSE {}) \cup Shl(BitsOf(n \div 2), 1)

Zeros(n) == [len |-> n, bits |-> {}]

\* n bits shifted through a register reg: the register's contents come out
\* first, then the bits shifted in, delayed by the register's width
ShiftThrough(reg, inp) ==
    [len |-> inp.len,
     bits |-> (reg.bits \cup Shl(inp.bits, reg.len)) \cap (0 .. inp.len - 1)]

\* the one-bit BYPASS register captures 0
BypassReg == [len |-> 1, bits |-> {}]

\* a link defect: one element of the sequence flipped
Flip(seq, k) ==
    [len |-> seq.len,
     bits |-> IF k \in seq.bits THEN seq.bits \ {k} ELSE seq.bits \cup {k}]

\* dtmcs contents tried: abits in 0..MaxAbits, any of these other bits
DtmcsProbe == {0, 12, 15, 17, 18, 31}
DtmcsRegs ==
    {[len |-> 32, bits |-> Shl(BitsOf(a), 4) \cup x] :
        a \in 0..MaxAbits, x \in SUBSET DtmcsProbe}

\* dmi contents tried, for a shift of n bits
DmiProbe(n) == {0, 2, 33, n - 1} \cap (0 .. n - 1)
DmiRegs(n) == {[len |-> n, bits |-> x] : x \in SUBSET DmiProbe(n)}

\* IDCODE register contents tried
IdcodeRegs ==
    {IdDefault, IdSifive, IdDeadbeef, {}}
    \cup {IF k \in IdSifive THEN IdSifive \ {k} ELSE IdSifive \cup {k} : k \in 0..31}

\* what shifting inp through the data register selected by instr can return
DrResponses(instr, inp) ==
    IF instr = RiscvJtagRegs.IDCODE
        THEN {ShiftThrough(BitSequence_int(devIdcode, 32), inp)}
    ELSE IF instr = RiscvJtagRegs.DTMCS
        THEN {ShiftThrough(r, inp) : r \in DtmcsRegs}
    ELSE IF instr = RiscvJtagRegs.DMI
        THEN DmiRegs(inp.len)
    ELSE {ShiftThrough(BypassReg, inp)}
         \cup {Flip(ShiftThrough(BypassReg, inp), k) : k \in 0 .. inp.len - 1}

(***************************************************************************)
(* Driver calls: each appends itself to the operation's call log and moves *)
(* the TAP                                                                 *)
(***************************************************************************)
\* a call: the function, its argument, its result, and (at) the state the
\* TAP and its instruction register were in when the call was made
Call(fn, a, r) == [fn |-> fn, a |-> a, r |-> r, at |-> [tap |-> tap, ir |-> ir]]

jtag_reset ==
    /\ tap' = "test_logic_reset"
    /\ ir' = RiscvJtagRegs.IDCODE
    /\ calls' = Append(calls, Call("reset", None, None))

jtag_go_idle ==
    /\ tap' = "run_test_idle"
    /\ ir' = ir
    /\ calls' = Append(calls, Call("go_idle", None, None))

jtag_capture_ir ==
    /\ tap' = "capture_ir"
    /\ ir' = ir
    /\ calls' = Append(calls, Call("capture_ir", None, None))

jtag_change_state(statename) ==
    /\ tap' = statename
    /\ ir' = ir
    /\ calls' = Append(calls, Call("change_state", statename, None))

jtag_write_ir(instruction) ==
    /\ tap' = "update_ir"
    /\ ir' = instruction
    /\ calls' = Append(calls, Call("write_ir", instruction, None))

\* tool.detect_register_size(): needs a capture or shift state
tool_detect_register_size(n) ==
    /\ tap \in {"capture_ir", "shift_ir", "capture_dr", "shift_dr"}
    /\ tap' = IF tap \in {"capture_ir", "shift_ir"} THEN "shift_ir" ELSE "shift_dr"
    /\ ir' = ir
    /\ calls' = Append(calls, Call("detect_register_size", None, n))

jtag_read_dr(length, out) ==
    /\ out \in DrResponses(ir, Zeros(length))
    /\ tap' = "update_dr"
    /\ ir' = ir
    /\ calls' = Append(calls, Call("read_dr", length, out))

\* accepted in a shift state only (see Shift_rejected)
jtag_shift_and_update_register(inp, out) ==
    /\ tap = "shift_dr"
    /\ out \in DrResponses(ir, inp)
    /\ tap' = "update_dr"
    /\ ir' = ir
    /\ calls' = Append(calls, Call("shift_and_update_register", inp, out))

(***************************************************************************)
(* Call, return and raise                                                  *)
(***************************************************************************)
Idle == pc \in {"none", "returned", "raised"}

\* a call of operation o with argument a: its first driver call is at `first`
Invoke(o, a, l, first) ==
    /\ op' = o
    /\ arg' = a
    /\ local' = l
    /\ pc' = first
    /\ ret' = None
    /\ err' = NoError
    /\ calls' = <<>>
    /\ UNCHANGED <<tap, ir, devIdcode, parked>>

\* `raise ValueError(msg)`: no operation and no caller in the module has a
\* handler, so the exception leaves check_connection as well
\* (faulty variant: the exception is swallowed and the caller goes on)
Raise_swallowed(msg) ==
    /\ pc' = "returned"
    /\ err' = ValueError(msg, op)
    /\ ret' = None
    /\ UNCHANGED ccpc
Raise(msg) ==
    /\ pc' = "raised"
    /\ err' = ValueError(msg, op)
    /\ ret' = None
    /\ ccpc' = IF ccpc = "none" THEN "none" ELSE "raised"

Return(v) ==
    /\ pc' = "returned"
    /\ ret' = v
    /\ UNCHANGED <<err, ccpc>>

\* a step in the middle of an operation
Goto(l) ==
    /\ pc' = l
    /\ UNCHANGED <<ret, err, ccpc>>

\* a call in its own right: what a thread keeps while another one runs
NoFrame ==
    [op |-> "none", pc |-> "none", arg |-> None, local |-> None, ret |-> None,
     err |-> NoError, calls |-> <<>>]
Frame ==
    [op |-> op, pc |-> pc, arg |-> arg, local |-> local, ret |-> ret,
     err |-> err, calls |-> calls]

\* Python values returned to the caller
PyInt(v) == [t |-> "int", v |-> v]
BSeq(v) == [t |-> "BitSequence", v |-> v]
Pair(a, b) == [t |-> "tuple", v1 |-> a, v2 |-> b]

\* what a step of an operation leaves alone
OpFrame == UNCHANGED <<steps, dtmctrl, op, arg, devIdcode, parked>>

(***************************************************************************)
(* detect_irlen (lines 85-101)                                             *)
(***************************************************************************)
IRLEN == 5

Invoke_detect_irlen == Invoke("detect_irlen", None, None, "L91")

detect_irlen_L91 ==
    /\ op = "detect_irlen" /\ pc = "L91"
    /\ jtag_reset
    /\ Goto("L92")
    /\ UNCHANGED local /\ OpFrame

detect_irlen_L92 ==
    /\ op = "detect_irlen" /\ pc = "L92"
    /\ jtag_go_idle
    /\ Goto("L93")
    /\ UNCHANGED local /\ OpFrame

detect_irlen_L93 ==
    /\ op = "detect_irlen" /\ pc = "L93"
    /\ jtag_capture_ir
    /\ Goto("L94")
    /\ UNCHANGED local /\ OpFrame

\* the check of lines 97-98 on what the driver reported
\* (faulty variant: irlen < 5)
detect_irlen_check_atleast(irlen) == irlen >= IRLEN
detect_irlen_check(irlen) == irlen = IRLEN

detect_irlen_L94 ==
    /\ op = "detect_irlen" /\ pc = "L94"
    /\ \E irlen \in 1..MaxIrlen :
        /\ tool_detect_register_size(irlen)
        /\ local' = [irlen |-> irlen]
        /\ IF detect_irlen_check(irlen) THEN Goto("L100") ELSE Raise("IR length")
    /\ OpFrame

detect_irlen_L100 ==
    /\ op = "detect_irlen" /\ pc = "L100"
    /\ jtag_reset
    /\ Return(PyInt(local.irlen))
    /\ UNCHANGED local /\ OpFrame

(***************************************************************************)
(* read_idcode (lines 104-123)                                             *)
(***************************************************************************)
Invoke_read_idcode(from_reset) ==
    Invoke("read_idcode", [from_reset |-> from_reset], None, "L112")

\* (faulty variant: no opening reset)
read_idcode_L112_noreset ==
    /\ op = "read_idcode" /\ pc = "L112"
    /\ Goto(IF ~arg.from_reset THEN "L114" ELSE "L115")
    /\ UNCHANGED <<tap, ir, calls, local>> /\ OpFrame
read_idcode_L112 ==
    /\ op = "read_idcode" /\ pc = "L112"
    /\ jtag_reset
    /\ Goto(IF ~arg.from_reset THEN "L114" ELSE "L115")
    /\ UNCHANGED local /\ OpFrame

\* (faulty variant: the BYPASS code is written)
read_idcode_L114_bypass ==
    /\ op = "read_idcode" /\ pc = "L114"
    /\ jtag_write_ir(RiscvJtagRegs.BYPASS)
    /\ Goto("L115")
    /\ UNCHANGED local /\ OpFrame
read_idcode_L114 ==
    /\ op = "read_idcode" /\ pc = "L114"
    /\ jtag_write_ir(RiscvJtagRegs.IDCODE)
    /\ Goto("L115")
    /\ UNCHANGED local /\ OpFrame

read_idcode_L115 ==
    /\ op = "read_idcode" /\ pc = "L115"
    /\ \E out \in DrResponses(ir, Zeros(32)) :
        /\ jtag_read_dr(32, out)
        /\ LET idcode == BitSequence_toint(out) IN
            /\ local' = [idcode |-> idcode]
            /\ IF idcode \notin DOMAIN JtagIdCodes
               THEN Raise("Unknown IDCODE")
               ELSE Goto("L122")
    /\ OpFrame

read_idcode_L122 ==
    /\ op = "read_idcode" /\ pc = "L122"
    /\ jtag_reset
    /\ Return(PyInt(local.idcode))
    /\ UNCHANGED local /\ OpFrame

(***************************************************************************)
(* bypass (lines 126-153)                                                  *)
(***************************************************************************)
\* "011011110000" * 2
DefaultPatternStr ==
    <<0, 1, 1, 0, 1, 1, 1, 1, 0, 0, 0, 0>> \o <<0, 1, 1, 0, 1, 1, 1, 1, 0, 0, 0, 0>>
DefaultPatternLen == 24
bypass_default_inp == BitSequence_str(DefaultPatternStr, FALSE, DefaultPatternLen)

Invoke_bypass(inp) ==
    Invoke("bypass", [inp |-> inp],
           [inp |-> IF inp = None THEN bypass_default_inp ELSE inp], "L136")

bypass_L136 ==
    /\ op = "bypass" /\ pc = "L136"
    /\ jtag_reset
    /\ Goto("L139")
    /\ UNCHANGED local /\ OpFrame

bypass_L139 ==
    /\ op = "bypass" /\ pc = "L139"
    /\ jtag_write_ir(RiscvJtagRegs.BYPASS)
    /\ Goto("L142")
    /\ UNCHANGED local /\ OpFrame

bypass_L142 ==
    /\ op = "bypass" /\ pc = "L142"
    /\ jtag_go_idle
    /\ Goto("L143")
    /\ UNCHANGED local /\ OpFrame

bypass_L143 ==
    /\ op = "bypass" /\ pc = "L143"
    /\ jtag_change_state("shift_dr")
    /\ Goto("L144")
    /\ UNCHANGED local /\ OpFrame

\* lines 147-148: out.lsr(1), then the comparison with inp
\* (faulty variant: the rotation goes the other way)
bypass_compensate_rsr(out) == BitSequence_lsr(out, out.len - 1)
bypass_compensate(out) == BitSequence_lsr(out, 1)

\* (faulty variant: on a mismatch the operation starts over)
bypass_L144_retry ==
    /\ op = "bypass" /\ pc = "L144"
    /\ tap = "shift_dr"
    /\ \E rcv \in DrResponses(ir, local.inp) :
        LET out == bypass_compensate(rcv) IN
        IF ~BitSequence_eq(out, local.inp)
        THEN /\ tap' = "update_dr" /\ ir' = ir /\ calls' = <<>>
             /\ local' = [inp |-> local.inp]
             /\ Goto("L136")
        ELSE /\ jtag_shift_and_update_register(local.inp, rcv)
             /\ local' = [inp |-> local.inp, out |-> out]
             /\ Goto("L152")
    /\ OpFrame
bypass_L144 ==
    /\ op = "bypass" /\ pc = "L144"
    /\ \E rcv \in DrResponses(ir, local.inp) :
        /\ jtag_shift_and_update_register(local.inp, rcv)
        /\ LET out == bypass_compensate(rcv) IN
            /\ local' = [inp |-> local.inp, out |-> out]
            /\ IF ~BitSequence_eq(out, local.inp)
               THEN Raise("Bypass failed")
               ELSE Goto("L152")
    /\ OpFrame

bypass_L152 ==
    /\ op = "bypass" /\ pc = "L152"
    /\ jtag_reset
    /\ Return(BSeq(local.out))
    /\ UNCHANGED local /\ OpFrame

(***************************************************************************)
(* read_dtmcontrol (lines 189-208)                                         *)
(***************************************************************************)
Invoke_read_dtmcontrol == Invoke("read_dtmcontrol", None, None, "L193")

read_dtmcontrol_L193 ==
    /\ op = "read_dtmcontrol" /\ pc = "L193"
    /\ jtag_reset
    /\ Goto("L195")
    /\ UNCHANGED local /\ OpFrame

read_dtmcontrol_L195 ==
    /\ op = "read_dtmcontrol" /\ pc = "L195"
    /\ jtag_write_ir(RiscvJtagRegs.DTMCS)
    /\ Goto("L198")
    /\ UNCHANGED local /\ OpFrame

read_dtmcontrol_L198 ==
    /\ op = "read_dtmcontrol" /\ pc = "L198"
    /\ jtag_go_idle
    /\ Goto("L199")
    /\ UNCHANGED local /\ OpFrame

read_dtmcontrol_L199 ==
    /\ op = "read_dtmcontrol" /\ pc = "L199"
    /\ jtag_change_state("shift_dr")
    /\ Goto("L201")
    /\ UNCHANGED local /\ OpFrame

read_dtmcontrol_L201 ==
    /\ op = "read_dtmcontrol" /\ pc = "L201"
    /\ LET inp == BitSequence_int({}, 32) IN
       \E out \in DrResponses(ir, inp) :
        /\ jtag_shift_and_update_register(inp, out)
        /\ LET dec == DtmControlValue_from_bitseq(out) IN
            IF dec.raised # ""
            THEN /\ local' = [inp |-> inp, out |-> out]
                 /\ Raise(dec.raised)
            ELSE /\ local' = [inp |-> inp, out |-> out,
                              rv |-> Pair(BitSequence_toint(out), dec)]
                 /\ Goto("L207")
    /\ OpFrame

read_dtmcontrol_L207 ==
    /\ op = "read_dtmcontrol" /\ pc = "L207"
    /\ jtag_reset
    /\ Return(local.rv)
    /\ UNCHANGED local /\ OpFrame

(***************************************************************************)
(* read_dmi (lines 243-263)                                                *)
(***************************************************************************)
DmiBase == 33

Invoke_read_dmi(abits) == Invoke("read_dmi", [abits |-> abits], None, "L248")

read_dmi_L248 ==
    /\ op = "read_dmi" /\ pc = "L248"
    /\ jtag_reset
    /\ Goto("L250")
    /\ UNCHANGED local /\ OpFrame

\* (faulty variant: the DTMCS code is written)
read_dmi_L250_dtmcs ==
    /\ op = "read_dmi" /\ pc = "L250"
    /\ jtag_write_ir(RiscvJtagRegs.DTMCS)
    /\ Goto("L253")
    /\ UNCHANGED local /\ OpFrame
read_dmi_L250 ==
    /\ op = "read_dmi" /\ pc = "L250"
    /\ jtag_write_ir(RiscvJtagRegs.DMI)
    /\ Goto("L253")
    /\ UNCHANGED local /\ OpFrame

read_dmi_L253 ==
    /\ op = "read_dmi" /\ pc = "L253"
    /\ jtag_go_idle
    /\ Goto("L254")
    /\ UNCHANGED local /\ OpFrame

read_dmi_L254 ==
    /\ op = "read_dmi" /\ pc = "L254"
    /\ jtag_change_state("shift_dr")
    /\ Goto("L256")
    /\ UNCHANGED local /\ OpFrame

\* line 255: BitSequence(0, length=abits + 33)
\* (faulty variant: abits is ignored)
read_dmi_inp_fixed(abits) == BitSequence_int({}, DmiBase)
\* (faulty variant: op = 1, a read request)
read_dmi_inp_readreq(abits) == BitSequence_int({0}, NatOf(abits) + DmiBase)
read_dmi_inp(abits) == BitSequence_int({}, NatOf(abits) + DmiBase)

read_dmi_L256 ==
    /\ op = "read_dmi" /\ pc = "L256"
    /\ LET inp == read_dmi_inp(arg.abits) IN
       \E out \in DrResponses(ir, inp) :
        /\ jtag_shift_and_update_register(inp, out)
        /\ local' = [inp |-> inp, out |-> out,
                     rv |-> Pair(BitSequence_toint(out), DmiValue_from_bitseq(out))]
        /\ Goto("L262")
    /\ OpFrame

read_dmi_L262 ==
    /\ op = "read_dmi" /\ pc = "L262"
    /\ jtag_reset
    /\ Return(local.rv)
    /\ UNCHANGED local /\ OpFrame

(***************************************************************************)
(* write_dmi (lines 266-288)                                               *)
(***************************************************************************)
isinstance_DmiValue(data) == "address" \in DOMAIN data

Invoke_write_dmi(data) == Invoke("write_dmi", [data |-> data], None, "L271")

write_dmi_L271 ==
    /\ op = "write_dmi" /\ pc = "L271"
    /\ jtag_reset
    /\ Goto("L273")
    /\ UNCHANGED local /\ OpFrame

write_dmi_L273 ==
    /\ op = "write_dmi" /\ pc = "L273"
    /\ jtag_write_ir(RiscvJtagRegs.DMI)
    /\ Goto("L276")
    /\ UNCHANGED local /\ OpFrame

write_dmi_L276 ==
    /\ op = "write_dmi" /\ pc = "L276"
    /\ jtag_go_idle
    /\ Goto("L277")
    /\ UNCHANGED local /\ OpFrame

write_dmi_L277 ==
    /\ op = "write_dmi" /\ pc = "L277"
    /\ jtag_change_state("shift_dr")
    /\ Goto("L281")
    /\ UNCHANGED local /\ OpFrame

write_dmi_L281 ==
    /\ op = "write_dmi" /\ pc = "L281"
    /\ LET data == IF isinstance_DmiValue(arg.data)
                   THEN DmiValue_to_bitseq(arg.data) ELSE arg.data IN
       \E out \in DrResponses(ir, data) :
        /\ jtag_shift_and_update_register(data, out)
        /\ local' = [data |-> data, out |-> out,
                     rv |-> Pair(BitSequence_toint(out), DmiValue_from_bitseq(out))]
        /\ Goto("L287")
    /\ OpFrame

\* (faulty variant: no closing reset)
write_dmi_L287_noreset ==
    /\ op = "write_dmi" /\ pc = "L287"
    /\ Return(local.rv)
    /\ UNCHANGED <<tap, ir, calls, local>> /\ OpFrame
write_dmi_L287 ==
    /\ op = "write_dmi" /\ pc = "L287"
    /\ jtag_reset
    /\ Return(local.rv)
    /\ UNCHANGED local /\ OpFrame

(***************************************************************************)
(* check_connection (lines 291-319)                                        *)
(***************************************************************************)
CcIdle == ccpc \in {"none", "returned", "raised"}

Step(o, a) == [op |-> o, arg |-> a]

check_connection_L298 ==
    /\ ccpc = "L298"
    /\ Invoke_detect_irlen
    /\ ccpc' = "L301"
    /\ steps' = Append(steps, Step("detect_irlen", None))
    /\ UNCHANGED dtmctrl

\* (faulty variant: from_reset=False in the first IDCODE read)
check_connection_L301_noforce ==
    /\ ccpc = "L301" /\ pc = "returned"
    /\ Invoke_read_idcode(FALSE)
    /\ ccpc' = "L304"
    /\ steps' = Append(steps, Step("read_idcode", [from_reset |-> FALSE]))
    /\ UNCHANGED dtmctrl
check_connection_L301 ==
    /\ ccpc = "L301" /\ pc = "returned"
    /\ Invoke_read_idcode(TRUE)
    /\ ccpc' = "L304"
    /\ steps' = Append(steps, Step("read_idcode", [from_reset |-> TRUE]))
    /\ UNCHANGED dtmctrl

check_connection_L304 ==
    /\ ccpc = "L304" /\ pc = "returned"
    /\ Invoke_read_idcode(FALSE)
    /\ ccpc' = "L307"
    /\ steps' = Append(steps, Step("read_idcode", [from_reset |-> FALSE]))
    /\ UNCHANGED dtmctrl

check_connection_L307 ==
    /\ ccpc = "L307" /\ pc = "returned"
    /\ Invoke_bypass(None)
    /\ ccpc' = "L310"
    /\ steps' = Append(steps, Step("bypass", [inp |-> None]))
    /\ UNCHANGED dtmctrl

check_connection_L310 ==
    /\ ccpc = "L310" /\ pc = "returned"
    /\ Invoke_read_dtmcontrol
    /\ ccpc' = "L313"
    /\ steps' = Append(steps, Step("read_dtmcontrol", None))
    /\ UNCHANGED dtmctrl

\* (_, dtmctrl) = read_dtmcontrol(), then read_dmi(dtmctrl.abits)
check_connection_L313 ==
    /\ ccpc = "L313" /\ pc = "returned"
    /\ dtmctrl' = ret.v2
    /\ Invoke_read_dmi(dtmctrl'.abits)
    /\ ccpc' = "L319"
    /\ steps' = Append(steps, Step("read_dmi", [abits |-> dtmctrl'.abits]))

\* print("Connection Checks Succeeded") and return
check_connection_L319 ==
    /\ ccpc = "L319" /\ pc = "returned"
    /\ ccpc' = "returned"
    /\ UNCHANGED <<steps, dtmctrl, op, pc, arg, local, ret, err, calls, tap, ir, devIdcode,
                   parked>>

(***************************************************************************)
(* The caller of the module: one call at a time, of any of its functions   *)
(***************************************************************************)
CanCall == ccpc = "none" /\ pc = "none"

\* the top-level call is over: the caller has its result or its exception,
\* and the values of the finished call are gone
Caller_done ==
    /\ CcIdle /\ Idle
    /\ ccpc # "none" \/ pc # "none"
    /\ ccpc' = "none"
    /\ steps' = <<>>
    /\ dtmctrl' = None
    /\ op' = "none" /\ pc' = "none" /\ arg' = None /\ local' = None
    /\ ret' = None /\ err' = NoError /\ calls' = <<>>
    /\ UNCHANGED <<tap, ir, devIdcode, parked>>

Direct == ccpc' = "none" /\ steps' = <<>> /\ dtmctrl' = None

\* arguments tried
BypassInputs ==
    {None} \cup UNION {{[len |-> n, bits |-> b] : b \in SUBSET (0 .. n - 1)} :
                        n \in 1..MaxBypassLen}
AbitsInputs == {BitsOf(a) : a \in 0..MaxAbits}
WriteWidths == {NatOf(a) + DmiBase : a \in AbitsInputs} \cup {8}
WriteDmiValues ==
    {[len |-> n, address |-> a, data |-> d, op |-> o] :
        n \in WriteWidths, a \in {{}, {0}}, d \in {{}, {0}, {31}}, o \in {{}, {0}, {1}}}
WriteDmiSeqs == {[len |-> n, bits |-> b] : n \in WriteWidths, b \in {{}, {0, 2}}}

Call_check_connection ==
    /\ CanCall
    /\ ccpc' = "L298"
    /\ steps' = <<>>
    /\ dtmctrl' = None
    /\ op' = "none" /\ pc' = "none" /\ arg' = None /\ local' = None
    /\ ret' = None /\ err' = NoError /\ calls' = <<>>
    /\ UNCHANGED <<tap, ir, devIdcode, parked>>

Call_detect_irlen == CanCall /\ Invoke_detect_irlen /\ Direct

Call_read_idcode ==
    CanCall /\ (\E from_reset \in BOOLEAN : Invoke_read_idcode(from_reset)) /\ Direct

Call_bypass == CanCall /\ (\E inp \in BypassInputs : Invoke_bypass(inp)) /\ Direct

Call_read_dtmcontrol == CanCall /\ Invoke_read_dtmcontrol /\ Direct

Call_read_dmi == CanCall /\ (\E abits \in AbitsInputs : Invoke_read_dmi(abits)) /\ Direct

Call_write_dmi ==
    CanCall /\ (\E data \in WriteDmiValues \cup WriteDmiSeqs : Invoke_write_dmi(data))
            /\ Direct

(***************************************************************************)
(* The program: the module is imported (lines 56-59 create the driver      *)
(* handle), then its functions are called                                  *)
(***************************************************************************)
Init ==
    /\ ccpc = "none"
    /\ steps = <<>>
    /\ dtmctrl = None
    /\ op = "none"
    /\ pc = "none"
    /\ arg = None
    /\ local = None
    /\ ret = None
    /\ err = NoError
    /\ calls = <<>>
    /\ tap = "test_logic_reset"
    /\ ir = RiscvJtagRegs.IDCODE
    /\ devIdcode \in IdcodeRegs
    /\ parked = NoFrame

Next ==
    \/ Caller_done
    \/ Call_check_connection
    \/ Call_detect_irlen
    \/ Call_read_idcode
    \/ Call_bypass
    \/ Call_read_dtmcontrol
    \/ Call_read_dmi
    \/ Call_write_dmi
    \/ check_connection_L298
    \/ check_connection_L301
    \/ check_connection_L304
    \/ check_connection_L307
    \/ check_connection_L310
    \/ check_connection_L313
    \/ check_connection_L319
    \/ detect_irlen_L91
    \/ detect_irlen_L92
    \/ detect_irlen_L93
    \/ detect_irlen_L94
    \/ detect_irlen_L100
    \/ read_idcode_L112
    \/ read_idcode_L114
    \/ read_idcode_L115
    \/ read_idcode_L122
    \/ bypass_L136
    \/ bypass_L139
    \/ bypass_L142
    \/ bypass_L143
    \/ bypass_L144
    \/ bypass_L152
    \/ read_dtmcontrol_L193
    \/ read_dtmcontrol_L195
    \/ read_dtmcontrol_L198
    \/ read_dtmcontrol_L199
    \/ read_dtmcontrol_L201
    \/ read_dtmcontrol_L207
    \/ read_dmi_L248
    \/ read_dmi_L250
    \/ read_dmi_L253
    \/ read_dmi_L254
    \/ read_dmi_L256
    \/ read_dmi_L262
    \/ write_dmi_L271
    \/ write_dmi_L273
    \/ write_dmi_L276
    \/ write_dmi_L277
    \/ write_dmi_L281
    \/ write_dmi_L287

Spec == Init /\ [][Next]_vars

(***************************************************************************)
(* Two threads of the caller on the one driver handle: nothing in the       *)
(* module locks `jtag` (line 56), so the running thread can be switched    *)
(* between any two driver calls.  Each thread makes one call, of           *)
(* read_dtmcontrol or of read_dmi.                                         *)
(***************************************************************************)
\* the running thread is parked and the parked one runs
Switch ==
    /\ ccpc = "none"
    /\ op' = parked.op /\ pc' = parked.pc /\ arg' = parked.arg
    /\ local' = parked.local /\ ret' = parked.ret /\ err' = parked.err
    /\ calls' = parked.calls
    /\ parked' = Frame
    /\ UNCHANGED <<ccpc, steps, dtmctrl, tap, ir, devIdcode>>

\* jtag.shift_and_update_register outside a shift state: the driver raises
\* its JtagError, which no operation handles
Shift_rejected ==
    /\ pc \in {"L201", "L256"}
    /\ tap # "shift_dr"
    /\ pc' = "raised"
    /\ err' = [t |-> "JtagError", msg |-> "Invalid state", by |-> op]
    /\ ret' = None
    /\ UNCHANGED <<ccpc, local, calls, tap, ir>> /\ OpFrame

\* the device the two threads talk to: its dtmcs holds version 1 and some
\* abits, nothing else; its dmi holds op 1 and data 1
ThreadsDtmcsRegs == {r \in DtmcsRegs : r.bits \cap DtmcsProbe = {0}}
ThreadsDmiReg(n) == [len |-> n, bits |-> {0, 2}]
ThreadsDevice(c) ==
    IF c.at.ir = RiscvJtagRegs.DTMCS
        THEN c.r \in {ShiftThrough(r, c.a) : r \in ThreadsDtmcsRegs}
    ELSE IF c.at.ir = RiscvJtagRegs.DMI
        THEN c.r = ThreadsDmiReg(c.a.len)
    ELSE TRUE

Threads_read_dtmcontrol_L201 ==
    read_dtmcontrol_L201 /\ ThreadsDevice(calls'[Len(calls')])

Threads_read_dmi_L256 ==
    read_dmi_L256 /\ ThreadsDevice(calls'[Len(calls')])

InitThreads == Init /\ devIdcode = IdDefault

NextThreads ==
    \/ Switch
    \/ Shift_rejected
    \/ Call_read_dtmcontrol
    \/ Call_read_dmi
    \/ read_dtmcontrol_L193
    \/ read_dtmcontrol_L195
    \/ read_dtmcontrol_L198
    \/ read_dtmcontrol_L199
    \/ Threads_read_dtmcontrol_L201
    \/ read_dtmcontrol_L207
    \/ read_dmi_L248
    \/ read_dmi_L250
    \/ read_dmi_L253
    \/ read_dmi_L254
    \/ Threads_read_dmi_L256
    \/ read_dmi_L262

SpecThreads == InitThreads /\ [][NextThreads]_vars

(***************************************************************************)
(* check_connection on a transport that may hang.  A driver call is a      *)
(* blocking call: the statement after it runs when it returns, and nothing *)
(* in the module bounds the wait.                                          *)
(***************************************************************************)
\* the driver call the operation is about to make does not return: the
\* operation stays inside it
Driver_hangs ==
    /\ op \in {"detect_irlen", "read_idcode", "bypass", "read_dtmcontrol", "read_dmi"}
    /\ pc \notin {"none", "returned", "raised", "hung"}
    /\ pc' = "hung"
    /\ UNCHANGED <<ccpc, steps, dtmctrl, op, arg, local, ret, err, calls, tap, ir,
                   devIdcode, parked>>

\* the statements of check_connection and of the operations it calls
CheckConnectionRuns ==
    \/ check_connection_L298
    \/ check_connection_L301
    \/ check_connection_L304
    \/ check_connection_L307
    \/ check_connection_L310
    \/ check_connection_L313
    \/ check_connection_L319
    \/ detect_irlen_L91
    \/ detect_irlen_L92
    \/ detect_irlen_L93
    \/ detect_irlen_L94
    \/ detect_irlen_L100
    \/ read_idcode_L112
    \/ read_idcode_L114
    \/ read_idcode_L115
    \/ read_idcode_L122
    \/ bypass_L136
    \/ bypass_L139
    \/ bypass_L142
    \/ bypass_L143
    \/ bypass_L144
    \/ bypass_L152
    \/ read_dtmcontrol_L193
    \/ read_dtmcontrol_L195
    \/ read_dtmcontrol_L198
    \/ read_dtmcontrol_L199
    \/ read_dtmcontrol_L201
    \/ read_dtmcontrol_L207
    \/ read_dmi_L248
    \/ read_dmi_L250
    \/ read_dmi_L253
    \/ read_dmi_L254
    \/ read_dmi_L256
    \/ read_dmi_L262

NextCheck ==
    \/ Call_check_connection
    \/ Caller_done
    \/ Driver_hangs
    \/ CheckConnectionRuns

\* the interpreter runs the next statement whenever there is one to run
SpecCheck == Init /\ [][NextCheck]_vars /\ WF_vars(CheckConnectionRuns)

(***************************************************************************)
(* The codecs called on their own: an input is drawn, then the codec       *)
(* functions are applied to it.  op names the chain of calls:              *)
(*   "to_bitseq;from_bitseq"   DmiValue.from_bitseq(v.to_bitseq())         *)
(*   "from_bitseq;to_bitseq"   DmiValue.from_bitseq(x).to_bitseq()         *)
(*   "DtmControlValue"         DtmControlValue.from_bitseq(x)              *)
(* arg is the input, local the value after the calls made so far.          *)
(***************************************************************************)
\* DMI values of width 33 + abits with every field within its width (op 2
\* bits, data 32 bits, address abits bits): at most MaxOnes bits set over
\* the three fields together, or all bits of all fields set
DmiValueOf(a, f) ==
    [len |-> a + DmiBase,
     op |-> {i \in 0..1 : i \in f},
     data |-> {i \in 0..31 : i + 2 \in f},
     address |-> {i \in 0 .. a - 1 : i + 34 \in f}]
DmiValueInputs(a) ==
    {DmiValueOf(a, f) : f \in Weighted(0 .. a + 33, MaxOnes) \cup {0 .. a + 33}}

\* bit sequences of width 33 + abits: at most MaxOnes bits set, or all set
DmiSeqInputs(a) ==
    {[len |-> a + DmiBase, bits |-> b] :
        b \in Weighted(0 .. a + DmiBase - 1, MaxOnes) \cup {0 .. a + DmiBase - 1}}

\* 32-bit sequences: at most MaxOnes bits set, all set, or all legal bits set
DtmSeqInputs(n) ==
    {[len |-> n, bits |-> b] :
        b \in Weighted(0 .. n - 1, MaxOnes) \cup {0 .. n - 1, (0 .. 17) \ {15}}}

InitCodec ==
    /\ ccpc = "none"
    /\ steps = <<>>
    /\ dtmctrl = None
    /\ pc = "start"
    /\ ret = None
    /\ err = NoError
    /\ calls = <<>>
    /\ tap = "test_logic_reset"
    /\ ir = RiscvJtagRegs.IDCODE
    /\ devIdcode = IdDefault
    /\ parked = NoFrame
    /\ \/ op = "to_bitseq;from_bitseq" /\ \E a \in 0..MaxAbits : arg \in DmiValueInputs(a)
       \/ op = "from_bitseq;to_bitseq" /\ \E a \in 0..MaxAbits : arg \in DmiSeqInputs(a)
       \/ op = "DtmControlValue" /\ arg \in DtmSeqInputs(32)
    /\ local = arg

CodecFrame == UNCHANGED <<ccpc, steps, dtmctrl, op, arg, calls, tap, ir, devIdcode, parked>>

\* the value of a call is the chain's result when it was the last call
CodecDone(v) ==
    /\ local' = v
    /\ IF pc = "start"
       THEN pc' = "mid" /\ ret' = ret
       ELSE pc' = "returned" /\ ret' = v
    /\ err' = err

Apply_DmiValue_to_bitseq ==
    /\ op \in {"to_bitseq;from_bitseq", "from_bitseq;to_bitseq"}
    /\ pc \in {"start", "mid"}
    /\ isinstance_DmiValue(local)
    /\ CodecDone(DmiValue_to_bitseq(local))
    /\ CodecFrame

Apply_DmiValue_from_bitseq ==
    /\ op \in {"to_bitseq;from_bitseq", "from_bitseq;to_bitseq"}
    /\ pc \in {"start", "mid"}
    /\ ~isinstance_DmiValue(local)
    /\ CodecDone(DmiValue_from_bitseq(local))
    /\ CodecFrame

Apply_DtmControlValue_from_bitseq ==
    /\ op = "DtmControlValue"
    /\ pc = "start"
    /\ LET dec == DtmControlValue_from_bitseq(local) IN
        IF dec.raised # ""
        THEN pc' = "raised" /\ err' = ValueError(dec.raised, op)
             /\ ret' = None /\ local' = local
        ELSE pc' = "returned" /\ err' = err /\ ret' = dec /\ local' = dec
    /\ CodecFrame

NextCodec ==
    \/ Apply_DmiValue_to_bitseq
    \/ Apply_DmiValue_from_bitseq
    \/ Apply_DtmControlValue_from_bitseq

SpecCodec == InitCodec /\ [][NextCodec]_vars

(***************************************************************************)
(* Properties                                                              *)
(***************************************************************************)
TapOperations ==
    {"detect_irlen", "read_idcode", "bypass", "read_dtmcontrol", "read_dmi", "write_dmi"}
RegisterAccess ==
    {"capture_ir", "detect_register_size", "write_ir", "read_dr",
     "shift_and_update_register"}
LastCall == calls[Len(calls)]
\* the w-bit field of val that starts at bit lo
Field(val, lo, w) == {j \in 0 .. w - 1 : lo + j \in val}

\* C1: each of the six TAP operations issues reset as its first driver
\* call; until its first register access the instruction register holds
\* its reset value; and when it has returned normally, the last driver call
\* it issued is reset (a second call, after the first) and the TAP is in
\* test_logic_reset.
C1_ResetFirstAndLast ==
    op \in TapOperations =>
        /\ calls # <<>> => calls[1].fn = "reset"
        /\ (calls # <<>> /\ \A i \in 1..Len(calls) : calls[i].fn \notin RegisterAccess)
              => ir = RiscvJtagRegs.IDCODE
        /\ pc = "returned" =>
              /\ Len(calls) >= 2
              /\ LastCall.fn = "reset"
              /\ tap = "test_logic_reset"
              /\ err = NoError

C1_Witness ==
    /\ op = "write_dmi" /\ pc = "returned"
    /\ calls[1].fn = "reset" /\ LastCall.fn = "reset" /\ Len(calls) = 6

C2_ExpectedOps ==
    <<"detect_irlen", "read_idcode", "read_idcode", "bypass", "read_dtmcontrol", "read_dmi">>
C2_StepsStarted ==
    CASE ccpc = "L298" -> {0}
      [] ccpc = "L301" -> {1}
      [] ccpc = "L304" -> {2}
      [] ccpc = "L307" -> {3}
      [] ccpc = "L310" -> {4}
      [] ccpc = "L313" -> {5}
      [] ccpc = "L319" -> {6}
      [] ccpc = "returned" -> {6}
      [] ccpc = "raised" -> 1..6
      [] OTHER -> {0}
C2_Order ==
    /\ Len(steps) \in C2_StepsStarted
    /\ \A i \in 1..Len(steps) : steps[i].op = C2_ExpectedOps[i]
    /\ Len(steps) >= 1 => steps[1].arg = None
    /\ Len(steps) >= 2 => steps[2].arg = [from_reset |-> TRUE]
    /\ Len(steps) >= 3 => steps[3].arg = [from_reset |-> FALSE]
    /\ Len(steps) >= 4 => steps[4].arg = [inp |-> None]
    /\ Len(steps) >= 5 => steps[5].arg = None
    /\ (ccpc # "none" /\ steps # <<>>) =>
          /\ op = steps[Len(steps)].op
          /\ arg = steps[Len(steps)].arg
    /\ ccpc # "none" => op # "write_dmi"
C2_StepAfterReturn ==
    (steps' # steps /\ steps' # <<>> /\ steps # <<>>) =>
        /\ pc = "returned"
        /\ steps' = Append(steps, steps'[Len(steps')])
\* C2: check_connection calls detect_irlen, read_idcode(from_reset=True),
\* read_idcode(from_reset=False), bypass(None), read_dtmcontrol, read_dmi,
\* in this order, each once; a step starts only when the one before it has
\* returned; write_dmi is never called.
C2_StrictOrder == [](C2_Order) /\ [][C2_StepAfterReturn]_vars

C2_Witness == ccpc = "returned" /\ Len(steps) = 6 /\ steps[6].op = "read_dmi"

C3_MsgOf(o) ==
    CASE o = "detect_irlen" -> {"IR length"}
      [] o = "read_idcode" -> {"Unknown IDCODE"}
      [] o = "bypass" -> {"Bypass failed"}
      [] o = "read_dtmcontrol" ->
            {"Invalid DTMCONTROL bit 15", "Invalid DTMCONTROL bits 18-31"}
      [] OTHER -> {}
C3_FailFast ==
    /\ (ccpc # "none" /\ (err # NoError \/ pc = "raised")) => ccpc = "raised"
    /\ ccpc = "raised" =>
          /\ pc = "raised"
          /\ steps # <<>>
          /\ op = steps[Len(steps)].op
          /\ err.t = "ValueError"
          /\ err.by = op
          /\ err.msg \in C3_MsgOf(op)
          /\ ret = None
          /\ LastCall.fn \in {"detect_register_size", "read_dr", "shift_and_update_register"}
C3_Halts ==
    ccpc = "raised" => (ccpc' = "none" /\ pc' = "none" /\ steps' = <<>> /\ UNCHANGED <<tap, ir>>)
\* C3: when a step of check_connection raises, check_connection ends with
\* that exception: the step that raised is the last step started, the
\* driver call whose result failed the check is the last driver call, the
\* exception is the one that step raised, the success line is not reached,
\* and nothing of check_connection runs afterwards.
C3_FirstErrorOnly == [](C3_FailFast) /\ [][C3_Halts]_vars

C3_Witness ==
    /\ ccpc = "raised" /\ Len(steps) = 5
    /\ err = ValueError("Invalid DTMCONTROL bit 15", "read_dtmcontrol")

\* C4 (as claimed): for a DMI value v of width 33 + abits with op, data and
\* address within 2, 32 and abits bits, DmiValue.from_bitseq(v.to_bitseq())
\* equals v in len, address, data and op.
C4_RoundTrip ==
    (op = "to_bitseq;from_bitseq" /\ pc = "returned") =>
        /\ ret.len = arg.len
        /\ ret.address = arg.address
        /\ ret.data = arg.data
        /\ ret.op = arg.op

\* C5: for a bit sequence x of width 33 + abits,
\* DmiValue.from_bitseq(x).to_bitseq() has the length and the bits of x.
C5_RoundTrip ==
    (op = "from_bitseq;to_bitseq" /\ pc = "returned") =>
        /\ ret.len = arg.len
        /\ ret.bits = arg.bits

C5_Witness ==
    /\ op = "from_bitseq;to_bitseq" /\ pc = "returned"
    /\ 33 \in arg.bits /\ 34 \in arg.bits
    /\ local = ret

C6_Malformed(val) == 15 \in val \/ \E i \in 18..31 : i \in val
\* C6: DtmControlValue.from_bitseq of a 32-bit value returns, when bit 15
\* and bits 18-31 are clear, version = bits 0-3, abits = bits 4-9, dmistat =
\* bits 10-11, idle = bits 12-14, dmireset = bit 16, dmihardreset = bit 17;
\* when bit 15 or one of bits 18-31 is set it raises the malformed-register
\* error and returns nothing.
C6_Decode ==
    (op = "DtmControlValue" /\ pc # "start") =>
        IF C6_Malformed(arg.bits)
        THEN /\ pc = "raised"
             /\ ret = None
             /\ err.t = "ValueError"
             /\ err.msg \in {"Invalid DTMCONTROL bit 15", "Invalid DTMCONTROL bits 18-31"}
        ELSE /\ pc = "returned"
             /\ err = NoError
             /\ ret.version = Field(arg.bits, 0, 4)
             /\ ret.abits = Field(arg.bits, 4, 6)
             /\ ret.dmistat = Field(arg.bits, 10, 2)
             /\ ret.idle = Field(arg.bits, 12, 3)
             /\ ret.dmireset = Field(arg.bits, 16, 1)
             /\ ret.dmihardreset = Field(arg.bits, 17, 1)

C6_Witness ==
    /\ op = "DtmControlValue" /\ pc = "raised"
    /\ 15 \in arg.bits /\ ~(\E i \in 18..31 : i \in arg.bits)

C7_Pattern == [len |-> 24, bits |-> {1, 2, 4, 5, 6, 7, 13, 14, 16, 17, 18, 19}]
\* C7: bypass with the default pattern (24 elements, "011011110000" twice),
\* when the driver returns the input delayed by one bit, does not raise:
\* the received sequence after out.lsr(1) equals the input, and it is what
\* bypass returns.
C7_DefaultBypassPasses ==
    (/\ op = "bypass" /\ arg = [inp |-> None]
     /\ pc \in {"L152", "returned", "raised"}
     /\ calls[5].r = [len |-> 24, bits |-> Shl(C7_Pattern.bits, 1)]) =>
        /\ calls[5].fn = "shift_and_update_register"
        /\ calls[5].a = C7_Pattern
        /\ pc # "raised"
        /\ err = NoError
        /\ local.out = C7_Pattern
        /\ pc = "returned" => ret = BSeq(C7_Pattern)

C7_Witness ==
    /\ op = "bypass" /\ arg = [inp |-> None] /\ pc = "returned"
    /\ calls[5].r = [len |-> 24, bits |-> Shl(C7_Pattern.bits, 1)]
    /\ ret = BSeq(C7_Pattern)

\* C8: detect_irlen returns 5 when the driver reports 5 and raises the
\* IR-length error for every other reported size; it returns nothing else.
C8_OnlyFive ==
    (op = "detect_irlen" /\ pc \in {"L100", "returned", "raised"}) =>
        /\ calls[4].fn = "detect_register_size"
        /\ IF calls[4].r = 5
           THEN /\ pc # "raised"
                /\ err = NoError
                /\ pc = "returned" => ret = PyInt(5)
           ELSE /\ pc = "raised"
                /\ err = ValueError("IR length", "detect_irlen")
                /\ ret = None

C8_Witness ==
    /\ op = "detect_irlen" /\ pc = "raised" /\ calls[4].r = 6

C9_Read == IF arg.from_reset THEN calls[2] ELSE calls[3]
\* C9: read_idcode, in both modes, returns the value read from the data
\* register when that value is 0x20000913 (SIFIVE) or 0x00000001 (DEFAULT),
\* and raises the unknown-IDCODE error, returning nothing, for any other.
C9_AllowList ==
    (op = "read_idcode" /\ pc \in {"L122", "returned", "raised"}) =>
        /\ C9_Read.fn = "read_dr"
        /\ C9_Read.a = 32
        /\ IF C9_Read.r.bits \in {{0}, {0, 1, 4, 8, 11, 29}}
           THEN /\ pc # "raised"
                /\ err = NoError
                /\ pc = "returned" => ret = PyInt(C9_Read.r.bits)
           ELSE /\ pc = "raised"
                /\ err = ValueError("Unknown IDCODE", "read_idcode")
                /\ ret = None

C9_Witness ==
    /\ op = "read_idcode" /\ pc = "raised" /\ ~arg.from_reset
    /\ C9_Read.r.bits = IdDeadbeef

C10_BadResponse ==
    \/ op = "detect_irlen" /\ LastCall.r # 5
    \/ op = "read_idcode" /\ LastCall.r.bits # IdSifive
    \/ op = "bypass" /\ LastCall.r # ShiftThrough([len |-> 1, bits |-> {}], LastCall.a)
    \/ op = "read_dtmcontrol" /\ C6_Malformed(LastCall.r.bits)
C10_Running == ccpc \in {"L298", "L301", "L304", "L307", "L310", "L313", "L319"}
C10_Inv ==
    /\ C10_Running => ENABLED Next
    /\ ccpc = "raised" => C10_BadResponse
    /\ ccpc = "returned" => (Len(steps) = 6 /\ err = NoError /\ pc = "returned")
    /\ (ccpc \in {"L319", "returned"} /\ Len(calls) >= 5) =>
          /\ calls[5].fn = "shift_and_update_register"
          /\ calls[5].a = [len |-> 33 + NatOf(dtmctrl.abits), bits |-> {}]
C10_AbitsThreaded ==
    (ccpc = "L313" /\ ccpc' = "L319") =>
        /\ calls[5].fn = "shift_and_update_register"
        /\ calls[2].a = RiscvJtagRegs.DTMCS
        /\ dtmctrl'.abits = Field(calls[5].r.bits, 4, 6)
        /\ arg' = [abits |-> dtmctrl'.abits]
\* C10: in a run of check_connection in which the driver reports IR length
\* 5, reads IDCODE 0x20000913, returns the BYPASS input delayed by one bit
\* and a DTMCONTROL value with bit 15 and bits 18-31 clear, no step raises;
\* while it runs a next step is always possible; it returns only after all
\* six steps; and the sequence
\* read_dmi shifts in has 33 + abits elements, abits being bits 4-9 of the
\* DTMCONTROL value that read_dtmcontrol read in the step before.
C10_EndToEnd == [](C10_Inv) /\ [][C10_AbitsThreaded]_vars

C10_Witness ==
    /\ ccpc = "returned" /\ devIdcode = IdSifive
    /\ NatOf(dtmctrl.abits) = 3
    /\ calls[5].a.len = 36

\* C11 (as claimed): when a TAP operation has finished, by returning or by
\* raising the error of its check, the TAP is in its reset state: the
\* controller is in test_logic_reset and the instruction register holds its
\* reset value.
C11_LeavesReset ==
    (op \in TapOperations /\ pc \in {"returned", "raised"}) =>
        /\ tap = "test_logic_reset"
        /\ ir = RiscvJtagRegs.IDCODE

\* the greatest element of a set of indices, 0 when it is empty
C12_Last(S) == IF S = {} THEN 0 ELSE CHOOSE m \in S : \A x \in S : x <= m
\* the instruction selected before the operation's i-th call, going by the
\* operation's own calls alone: the one it wrote since its last reset, the
\* reset value when it wrote none
C12_OwnIr(i) ==
    LET r == C12_Last({j \in 1 .. i - 1 : calls[j].fn = "reset"})
        w == C12_Last({j \in 1 .. i - 1 : calls[j].fn = "write_ir"})
    IN IF w > r THEN calls[w].a ELSE RiscvJtagRegs.IDCODE
\* the controller state before the i-th call, going by the call before it
C12_OwnTap(i) ==
    LET c == calls[i - 1] IN
    CASE c.fn = "reset" -> "test_logic_reset"
      [] c.fn = "go_idle" -> "run_test_idle"
      [] c.fn = "capture_ir" -> "capture_ir"
      [] c.fn = "change_state" -> c.a
      [] c.fn = "write_ir" -> "update_ir"
      [] c.fn = "detect_register_size" -> "shift_ir"
      [] OTHER -> "update_dr"
\* C12: in every sequence of TAP operations run one after another, failed
\* ones included, each call of an operation other than its opening reset
\* comes after a reset the same operation issued, and finds the TAP in the
\* state, with the instruction selected, that the operation's own calls
\* produced; the value a data-register read or shift returns is one the
\* register so selected can return, whatever state the operation before
\* left the TAP in.
C12_NoLeak ==
    op \in TapOperations =>
        \A i \in 1..Len(calls) :
            \/ i = 1 /\ calls[i].fn = "reset"
            \/ /\ i > 1
               /\ \E j \in 1 .. i - 1 : calls[j].fn = "reset"
               /\ calls[i].at.ir = C12_OwnIr(i)
               /\ calls[i].at.tap = C12_OwnTap(i)
               /\ calls[i].fn = "read_dr" =>
                      calls[i].r \in DrResponses(C12_OwnIr(i), Zeros(calls[i].a))
               /\ calls[i].fn = "shift_and_update_register" =>
                      calls[i].r \in DrResponses(C12_OwnIr(i), calls[i].a)

\* read_idcode from the reset state, started where a failed bypass left the
\* TAP (update_dr, BYPASS selected), has returned
C12_Witness ==
    /\ op = "read_idcode" /\ arg.from_reset /\ pc = "returned"
    /\ calls[1].at = [tap |-> "update_dr", ir |-> RiscvJtagRegs.BYPASS]
    /\ calls[2].fn = "read_dr" /\ calls[2].at.ir = RiscvJtagRegs.IDCODE

C13_Operations == {"bypass", "read_dtmcontrol", "read_dmi", "write_dmi"}
C13_OwnCode(o) ==
    CASE o = "bypass" -> RiscvJtagRegs.BYPASS
      [] o = "read_dtmcontrol" -> RiscvJtagRegs.DTMCS
      [] OTHER -> RiscvJtagRegs.DMI
C13_Sequence ==
    <<"reset", "write_ir", "go_idle", "change_state", "shift_and_update_register", "reset">>
\* C13 (as claimed): bypass, read_dtmcontrol, read_dmi and write_dmi, when
\* they have finished, have each issued exactly the driver calls reset,
\* write_ir with the operation's own code, go_idle, change_state to
\* shift_dr, one shift_and_update_register, reset; the shift was made with
\* the operation's own code selected and the TAP in shift_dr.
C13_ExactSequence ==
    (op \in C13_Operations /\ pc \in {"returned", "raised"}) =>
        /\ Len(calls) = 6
        /\ \A i \in 1..6 : calls[i].fn = C13_Sequence[i]
        /\ calls[2].a = C13_OwnCode(op)
        /\ calls[4].a = "shift_dr"
        /\ calls[5].at = [tap |-> "shift_dr", ir |-> C13_OwnCode(op)]

\* C14 (as claimed): for every caller-supplied input of length >= 1, bypass,
\* when the driver returns the input delayed by one bit (the one-bit BYPASS
\* register in front of it), does not raise and returns a sequence equal to
\* the input.
C14_AnyInputPasses ==
    (/\ op = "bypass" /\ arg.inp # None
     /\ pc \in {"L152", "returned", "raised"}
     /\ calls[5].r = ShiftThrough(BypassReg, arg.inp)) =>
        /\ calls[5].a = arg.inp
        /\ pc # "raised"
        /\ err = NoError
        /\ pc = "returned" => ret = BSeq(arg.inp)

\* the received sequence with every element moved one place towards index 0
\* and element 0 moved to the end
C15_Compensated(rcv) ==
    [len |-> rcv.len,
     bits |-> {i \in 0 .. rcv.len - 1 : ((i + 1) % rcv.len) \in rcv.bits}]
\* C15: once bypass has made its shift, it goes on to its closing reset and
\* returns (the compensated sequence) only if the sequence shifted out,
\* compensated by one bit, has the length and the bits of the input; if they
\* differ in any bit it raises the BYPASS-mismatch error, returns nothing,
\* and the shift stays its last driver call.
C15_MismatchFails ==
    (op = "bypass" /\ pc \in {"L152", "returned", "raised"}) =>
        LET sent == calls[5].a
            got == C15_Compensated(calls[5].r)
        IN /\ calls[5].fn = "shift_and_update_register"
           /\ sent = (IF arg.inp = None THEN C7_Pattern ELSE arg.inp)
           /\ IF got.len = sent.len /\ got.bits = sent.bits
              THEN /\ pc # "raised"
                   /\ err = NoError
                   /\ pc = "returned" => (ret = BSeq(got) /\ Len(calls) = 6)
              ELSE /\ pc = "raised"
                   /\ err = ValueError("Bypass failed", "bypass")
                   /\ ret = None
                   /\ Len(calls) = 5

\* the default pattern came back with exactly its element 7 wrong
C15_Witness ==
    /\ op = "bypass" /\ pc = "raised" /\ arg.inp = None
    /\ calls[5].r = Flip(ShiftThrough(BypassReg, C7_Pattern), 8)
    /\ Len(calls) = 5

\* C16: write_dmi shifts in a sequence as wide as the data it was given (the
\* len of a DmiValue, the length of a bit sequence, which is sent as it is),
\* whatever that width; it returns the integer value and the decode (op =
\* bits 0-1, data = bits 2-33, address = the bits from 34 up) of the sequence
\* that came back, with len the width sent; and it never raises.
C16_AnyWidth ==
    op = "write_dmi" =>
        /\ pc # "raised" /\ err = NoError
        /\ pc \in {"L287", "returned"} =>
              /\ calls[5].fn = "shift_and_update_register"
              /\ calls[5].a.len = arg.data.len
              /\ ~isinstance_DmiValue(arg.data) => calls[5].a = arg.data
              /\ calls[5].r.len = arg.data.len
              /\ local.rv.v1 = calls[5].r.bits
              /\ local.rv.v2 = [len |-> arg.data.len,
                                op |-> Field(calls[5].r.bits, 0, 2),
                                data |-> Field(calls[5].r.bits, 2, 32),
                                address |-> Shr(calls[5].r.bits, 34)]
              /\ pc = "returned" => ret = local.rv

\* a DmiValue of len 8, narrower than any DMI register, went through
C16_Witness ==
    /\ op = "write_dmi" /\ pc = "returned"
    /\ isinstance_DmiValue(arg.data) /\ arg.data.len = 8
    /\ calls[5].a.len = 8 /\ ret.v2.len = 8 /\ ret.v2.data = {0}

\* the running thread makes its data shift in this step
C17_ShiftStep ==
    /\ parked' = parked
    /\ Len(calls') = Len(calls) + 1
    /\ calls'[Len(calls')].fn = "shift_and_update_register"
\* the instruction a log of calls leaves selected: the one written since
\* its last reset, the reset value when none was
C17_IrAfter(log) ==
    LET r == C12_Last({j \in 1..Len(log) : log[j].fn = "reset"})
        w == C12_Last({j \in 1..Len(log) : log[j].fn = "write_ir"})
    IN IF w > r THEN log[w].a ELSE RiscvJtagRegs.IDCODE
\* the other thread has issued driver calls, and the instruction now
\* selected is the one its calls left
C17_OtherSelected ==
    /\ parked.op \in C13_Operations
    /\ parked.calls # <<>>
    /\ ir = C17_IrAfter(parked.calls)
C17_Step ==
    C17_ShiftStep =>
        LET c == calls'[Len(calls')] IN
        /\ c.at.tap = "shift_dr"
        /\ c.r \in DrResponses(c.at.ir, c.a)
        /\ c.at.ir # C13_OwnCode(op) => C17_OtherSelected
        /\ parked.calls = <<>> => c.at.ir = C13_OwnCode(op)
\* C17: with two threads calling read_dtmcontrol and read_dmi on the one
\* driver handle, an operation's data shift goes through the register of
\* its own instruction code or, when the other thread's driver calls came
\* in between, through the register the other operation's calls left
\* selected (by its instruction write or by its reset), and then returns
\* that register's value; while the other thread has issued no call, the
\* shift goes through the operation's own register.
C17_WrongRegister == [][C17_Step]_vars

\* read_dtmcontrol has returned the contents of the dmi register: its shift
\* was made with DMI selected, by a read_dmi of the other thread
C17_Witness ==
    /\ op = "read_dtmcontrol" /\ pc = "returned"
    /\ calls[2].a = RiscvJtagRegs.DTMCS
    /\ calls[5].at.ir = RiscvJtagRegs.DMI
    /\ ret.v1 = {0, 2}
    /\ parked.op = "read_dmi"

\* the sequences an operation has given the driver to shift into a data
\* register
C18_ShiftedIn ==
    {calls[i].a : i \in {j \in 1..Len(calls) : calls[j].fn = "shift_and_update_register"}}
\* C18: every sequence read_dtmcontrol shifts into the data register has 32
\* elements, all 0, so bits 16 (dmireset) and 17 (dmihardreset) of what it
\* writes are 0; every sequence read_dmi shifts in has 33 + abits elements,
\* all 0, so the op (bits 0-1), data (bits 2-33) and address (bits 34 up) it
\* writes are 0: no read or write request; and once past the shift each has
\* shifted in exactly one sequence.
C18_NonIntrusive ==
    /\ op = "read_dtmcontrol" =>
          /\ \A x \in C18_ShiftedIn :
                /\ x.len = 32
                /\ \A i \in 0..31 : i \notin x.bits
                /\ Field(x.bits, 16, 1) = {} /\ Field(x.bits, 17, 1) = {}
          /\ pc \in {"L207", "returned", "raised"} => Cardinality(C18_ShiftedIn) = 1
    /\ op = "read_dmi" =>
          /\ \A x \in C18_ShiftedIn :
                /\ x.len = 33 + NatOf(arg.abits)
                /\ \A i \in 0 .. x.len - 1 : i \notin x.bits
                /\ Field(x.bits, 0, 2) = {}
                /\ Field(x.bits, 2, 32) = {}
                /\ Shr(x.bits, 34) = {}
          /\ pc \in {"L262", "returned"} => Cardinality(C18_ShiftedIn) = 1

\* read_dmi(3) returned a dmi register that was not zero, having shifted in
\* 36 zeros
C18_Witness ==
    /\ op = "read_dmi" /\ pc = "returned" /\ NatOf(arg.abits) = 3
    /\ C18_ShiftedIn = {[len |-> 36, bits |-> {}]}
    /\ 0 \in calls[5].r.bits

C19_Fns == [i \in 1..Len(calls) |-> calls[i].fn]
\* what either mode must come to, given the device's IDCODE register
C19_Outcome ==
    IF devIdcode \in {IdDefault, IdSifive}
    THEN /\ pc # "raised"
         /\ err = NoError
         /\ pc = "returned" => ret = PyInt(devIdcode)
    ELSE /\ pc = "raised"
         /\ err = ValueError("Unknown IDCODE", "read_idcode")
         /\ ret = None
\* C19: read_idcode(from_reset=False) issues reset, write_ir(IDCODE), then
\* read_dr(32); read_idcode(from_reset=True) issues reset, then read_dr(32),
\* and no write_ir at all.  In both modes the read is made with IDCODE
\* selected and returns the device's IDCODE register, so both modes come to
\* the same outcome, which depends on the device alone: its IDCODE when that
\* is a known one, the unknown-IDCODE error otherwise.
C19_ModesAgree ==
    op = "read_idcode" =>
        /\ \A i \in 1..Len(calls) :
              calls[i].fn = "write_ir" =>
                  (~arg.from_reset /\ i = 2 /\ calls[i].a = RiscvJtagRegs.IDCODE)
        /\ pc \in {"L122", "returned", "raised"} =>
              /\ IF arg.from_reset
                 THEN SubSeq(C19_Fns, 1, 2) = <<"reset", "read_dr">>
                 ELSE SubSeq(C19_Fns, 1, 3) = <<"reset", "write_ir", "read_dr">>
              /\ C9_Read.a = 32
              /\ C9_Read.at.ir = RiscvJtagRegs.IDCODE
              /\ C9_Read.r = [len |-> 32, bits |-> devIdcode]
              /\ C19_Outcome

\* the mode that writes the instruction has read and returned 0x20000913
C19_Witness ==
    /\ op = "read_idcode" /\ ~arg.from_reset /\ pc = "returned"
    /\ calls[2].fn = "write_ir" /\ calls[3].fn = "read_dr"
    /\ ret = PyInt(IdSifive)

\* the most driver calls each step of check_connection makes
C20_MaxCalls == <<5, 3, 4, 6, 6, 6>>
C20_Finished == ccpc \in {"returned", "raised"}
C20_Hung == pc = "hung"
C20_Inv ==
    /\ Len(steps) <= 6
    /\ (ccpc # "none" /\ steps # <<>>) => Len(calls) <= C20_MaxCalls[Len(steps)]
    /\ ccpc = "returned" => (Len(steps) = 6 /\ pc = "returned" /\ err = NoError)
    /\ ccpc = "raised" =>
          (pc = "raised" /\ err.t = "ValueError" /\ err.by = steps[Len(steps)].op)
    /\ C20_Hung => (~C20_Finished /\ ret = None /\ err = NoError)
\* a call that does not return is never abandoned
C20_HungStays ==
    C20_Hung => (pc' = "hung" /\ UNCHANGED <<ccpc, steps, op, calls, ret, err>>)
\* C20: a run of check_connection makes at most 5, 3, 4, 6, 6, 6 driver
\* calls in its six steps; if every driver call returns it ends, either
\* returned after all six steps with no error or raised with the error of
\* the step it was in; if a driver call does not return, the operation
\* stays in that call for ever: it neither returns nor raises, and no
\* further step starts.
C20_Terminates ==
    /\ [](C20_Inv)
    /\ [][C20_HungStays]_vars
    /\ (ccpc = "L298") ~> (C20_Finished \/ C20_Hung)

\* the bypass step's shift (the fifth call of the fourth step) did not return
C20_Witness ==
    /\ ccpc = "L310" /\ pc = "hung" /\ op = "bypass"
    /\ Len(steps) = 4 /\ Len(calls) = 4

====
